---- MODULE Spec2Model ----
\* A model of setup.py of jupyterlab-google-drive: the module body executed
\* statement by statement, from the inspection of sys.argv (line 11) to the
\* call of distutils' setup() (line 37).
\*
\* A run is one execution of the file's body.  Its inputs are sys.argv, the
\* value of __name__, the process's working directory, the directory that
\* holds setup.py and what each directory holds under the name 'node_modules'.
\* The imports of lines 1-3 and of line 12 are taken to succeed (the packaging
\* modules are installed); what setup() does once called belongs to the
\* external packaging toolchain and is modelled only by whether it returns.
EXTENDS Integers, Sequences, FiniteSets, TLC

\* ---------------------------------------------------------------- inputs

\* Longest sys.argv of a modelled run.
MaxArgc == 2

\* Command-line words, as sequences of characters (Python str).
S_setup_py == <<"s","e","t","u","p",".","p","y">>
S_build == <<"b","u","i","l","d">>
S_install == <<"i","n","s","t","a","l","l">>
S_sdist == <<"s","d","i","s","t">>
S_develop == <<"d","e","v","e","l","o","p">>
S_dashdevelop == <<"-","-","d","e","v","e","l","o","p">>
S_developer == <<"d","e","v","e","l","o","p","e","r">>
S_bdist == <<"b","d","i","s","t">>
S_bdist_wheel == <<"b","d","i","s","t","_","w","h","e","e","l">>
S_bdist_egg == <<"b","d","i","s","t","_","e","g","g">>
S_bdis == <<"b","d","i","s">>
S_xbdist == <<"x","b","d","i","s","t">>

\* The words a modelled sys.argv is drawn from.
ArgPool ==
  { S_setup_py, S_build, S_install, S_sdist, S_develop, S_dashdevelop,
    S_developer, S_bdist, S_bdist_wheel, S_bdist_egg, S_bdis, S_xbdist }

\* Every argument list of at most MaxArgc words (sys.argv may be empty in an
\* embedding interpreter).
ArgLists == UNION { [1..n -> ArgPool] : n \in 0..MaxArgc }

\* The values __name__ takes: executed as a script, or imported as a module.
ModuleNames == { "__main__", "setup" }

\* Two directories: a run's working directory and the directory holding
\* setup.py are each one of them.
Dirs == { "/proj", "/work" }

\* What a directory holds under the name 'node_modules': nothing, a
\* directory, a regular file, or a symbolic link whose target is missing.
EntryKinds == { "absent", "dir", "file", "dangling" }

\* ---------------------------------------------------------------- state

VARIABLES
  argv,               \* sys.argv
  name,               \* __name__
  cwd,                \* os.getcwd()
  scriptDir,          \* directory that holds setup.py
  fs,                 \* fs[d]: kind of the entry d/node_modules
  pc,                 \* next statement of the module body
  setuptoolsImported, \* line 12 has run
  raised,             \* exception raised by the file's own raise statement
  globals,            \* the module's namespace: the names bound by the body
  setupCalls,         \* keyword arguments of every setup() call, in order
  log                 \* statements executed so far, in order

vars ==
  << argv, name, cwd, scriptDir, fs, pc, setuptoolsImported, raised,
     globals, setupCalls, log >>

\* ---------------------------------------------------------------- helpers

\* str.startswith(prefix)
StartsWith(a, prefix) ==
  /\ Len(a) >= Len(prefix)
  /\ \A i \in 1..Len(prefix) : a[i] = prefix[i]

\* x in list
ListContains(l, x) == \E i \in 1..Len(l) : l[i] = x

\* any(a.startswith(prefix) for a in l)
AnyStartsWith(l, prefix) == \E i \in 1..Len(l) : StartsWith(l[i], prefix)

\* Faulty variant of line 11: 'develop' matched as a prefix, like 'bdist'.
NeedsSetuptoolsAnyWord(l) ==
  \E i \in 1..Len(l) : StartsWith(l[i], S_develop) \/ StartsWith(l[i], S_bdist)

\* The condition of line 11.
NeedsSetuptools(l) ==
  ListContains(l, S_develop) \/ AnyStartsWith(l, S_bdist)

\* Faulty variant: the path taken relative to setup.py's directory.
ResolveAgainstScriptDir(p) == << scriptDir, p >>

\* A relative path names an entry of the working directory.
ResolveRelative(p) == << cwd, p >>

\* Faulty variant of the guard's test: os.path.isdir in place of exists.
OsPathIsDir(path) == fs[path[1]] = "dir"

\* Faulty variant of the guard's test: the check left out.
OsPathAlwaysExists(path) == TRUE

\* os.path.exists(path): os.stat() succeeds; it follows symbolic links and
\* reports False for a missing entry and for a dangling link.
OsPathExists(path) == fs[path[1]] \in { "dir", "file" }

\* The guard's test of line 17.
NodeModulesFound == OsPathExists(ResolveRelative("node_modules"))

\* Faulty variant of lines 23-34: a version that depends on sys.argv.
SetupArgsFromArgv ==
  [ name |-> "jupyterlab_google_drive",
    version |-> IF Len(argv) > 1 THEN "0.1.1" ELSE "0.1.0",
    packages |-> << "jupyterlab_google_drive" >>,
    author |-> "Ian Rose",
    author_email |-> "ian.rose@berkeley.edu",
    keywords |-> << "jupyterlab", "jupyterlab extension" >>,
    include_package_data |-> TRUE,
    install_requires |-> << "jupyterlab>=0.3.0" >> ]

\* The dictionary built by lines 23-34.
SetupArgsDict ==
  [ name |-> "jupyterlab_google_drive",
    version |-> "0.1.0",
    packages |-> << "jupyterlab_google_drive" >>,
    author |-> "Ian Rose",
    author_email |-> "ian.rose@berkeley.edu",
    keywords |-> << "jupyterlab", "jupyterlab extension" >>,
    include_package_data |-> TRUE,
    install_requires |-> << "jupyterlab>=0.3.0" >> ]

\* Faulty variant of line 36: the __main__ test left out.
IsAnyName == TRUE

\* Faulty variant of line 36: the name misspelt.
IsMainTypo == name = "main"

\* The condition of line 36.
IsMain == name = "__main__"

\* ---------------------------------------------------------------- run

Init ==
  /\ argv \in ArgLists
  /\ name \in ModuleNames
  /\ cwd \in Dirs
  /\ scriptDir \in Dirs
  /\ fs \in [Dirs -> EntryKinds]
  /\ pc = "line11"
  /\ setuptoolsImported = FALSE
  /\ raised = "none"
  /\ globals = << >>
  /\ setupCalls = << >>
  /\ log = << >>

\* Line 11: if 'develop' in sys.argv or any(a.startswith('bdist') ...).
InspectArgv ==
  /\ pc = "line11"
  /\ pc' = IF NeedsSetuptools(argv) THEN "line12" ELSE "line17"
  /\ log' = Append(log, "inspect")
  /\ UNCHANGED << argv, name, cwd, scriptDir, fs, setuptoolsImported, raised,
                  globals, setupCalls >>

\* Faulty variant of line 12: the import made only when 'node_modules' is
\* found.
ImportSetuptoolsUnderGuard ==
  /\ pc = "line12"
  /\ setuptoolsImported' = NodeModulesFound
  /\ pc' = "line17"
  /\ log' = Append(log, "import")
  /\ UNCHANGED << argv, name, cwd, scriptDir, fs, raised, globals,
                  setupCalls >>

\* Line 12: import setuptools.
ImportSetuptools ==
  /\ pc = "line12"
  /\ setuptoolsImported' = TRUE
  /\ pc' = "line17"
  /\ log' = Append(log, "import")
  /\ UNCHANGED << argv, name, cwd, scriptDir, fs, raised, globals,
                  setupCalls >>

\* Line 17: if not os.path.exists('node_modules').
CheckNodeModules ==
  /\ pc = "line17"
  /\ pc' = IF ~NodeModulesFound THEN "line18" ELSE "line23"
  /\ log' = Append(log, "exists")
  /\ UNCHANGED << argv, name, cwd, scriptDir, fs, setuptoolsImported, raised,
                  globals, setupCalls >>

\* Lines 18-21: raise NodeModulesMissing(...); nothing catches it, so the
\* run ends.
RaiseNodeModulesMissing ==
  /\ pc = "line18"
  /\ raised' = "NodeModulesMissing"
  /\ pc' = "failed"
  /\ log' = Append(log, "raise")
  /\ UNCHANGED << argv, name, cwd, scriptDir, fs, setuptoolsImported,
                  globals, setupCalls >>

\* Faulty variant of lines 23-34: setup() also called at module level.
BuildSetupArgsAndCall ==
  /\ pc = "line23"
  /\ globals' = [ setup_args |-> SetupArgsDict ]
  /\ setupCalls' = Append(setupCalls, SetupArgsDict)
  /\ pc' = "line36"
  /\ log' = Append(log, "metadata")
  /\ UNCHANGED << argv, name, cwd, scriptDir, fs, setuptoolsImported, raised >>

\* Lines 23-34: setup_args = dict(...).
BuildSetupArgs ==
  /\ pc = "line23"
  /\ globals' = [ setup_args |-> SetupArgsDict ]
  /\ pc' = "line36"
  /\ log' = Append(log, "metadata")
  /\ UNCHANGED << argv, name, cwd, scriptDir, fs, setuptoolsImported, raised,
                  setupCalls >>

\* Line 36: if __name__ == '__main__'.
MainGuard ==
  /\ pc = "line36"
  /\ pc' = IF IsMain THEN "line37" ELSE "done"
  /\ log' = Append(log, "main?")
  /\ UNCHANGED << argv, name, cwd, scriptDir, fs, setuptoolsImported, raised,
                  globals, setupCalls >>

\* Line 37: setup(**setup_args).  The call hands the toolchain the
\* dictionary's items; the toolchain then returns or fails on its own account
\* (a usage error, a build error), which ends the run either way.
CallSetup ==
  /\ pc = "line37"
  /\ setupCalls' = Append(setupCalls, globals.setup_args)
  /\ pc' \in { "done", "setup_error" }
  /\ log' = Append(log, "setup")
  /\ UNCHANGED << argv, name, cwd, scriptDir, fs, setuptoolsImported, raised,
                  globals >>

Next ==
  \/ InspectArgv
  \/ ImportSetuptools
  \/ CheckNodeModules
  \/ RaiseNodeModulesMissing
  \/ BuildSetupArgs
  \/ MainGuard
  \/ CallSetup

Spec == Init /\ [][Next]_vars

\* The interpreter runs the body to its end: no statement waits on anything.
FairSpec == Init /\ [][Next]_vars /\ WF_vars(Next)

\* ---------------------------------------------------------------- notions

\* The run is over.
Ended == pc \in { "done", "failed", "setup_error" }

\* What the working directory holds under 'node_modules'.
CwdEntry == fs[cwd]

\* 'node_modules' names something that is there (a directory or a file).
PathPresent == CwdEntry \in { "dir", "file" }

\* Words of the pool that are 'develop' or begin with 'bdist'.
TriggerWords == { S_develop, S_bdist, S_bdist_wheel, S_bdist_egg }

HasTriggerWord == \E i \in DOMAIN argv : argv[i] \in TriggerWords

\* How many times a statement has run.
Count(step) == Cardinality({ i \in DOMAIN log : log[i] = step })

\* Position of a statement in the body.
Rank(step) ==
  CASE step = "inspect" -> 1
    [] step = "import" -> 2
    [] step = "exists" -> 3
    [] step = "raise" -> 4
    [] step = "metadata" -> 4
    [] step = "main?" -> 5
    [] step = "setup" -> 6

\* The metadata as the file declares it.
DeclaredMetadata ==
  [ name |-> "jupyterlab_google_drive",
    version |-> "0.1.0",
    packages |-> << "jupyterlab_google_drive" >>,
    author |-> "Ian Rose",
    author_email |-> "ian.rose@berkeley.edu",
    keywords |-> << "jupyterlab", "jupyterlab extension" >>,
    include_package_data |-> TRUE,
    install_requires |-> << "jupyterlab>=0.3.0" >> ]

\* ---------------------------------------------------------------- claims

\* C1: whatever the argument list, when 'node_modules' does not exist the run
\* ends by raising NodeModulesMissing and setup() is called at no point of it.
C1_MissingFailsWithoutSetup ==
  ~PathPresent =>
    /\ setupCalls = << >>
    /\ Count("setup") = 0
    /\ Ended => (pc = "failed" /\ raised = "NodeModulesMissing")
    /\ ~Ended => ENABLED Next

C1_Witness ==
  /\ ~PathPresent
  /\ pc = "failed"
  /\ raised = "NodeModulesMissing"
  /\ argv = << S_setup_py, S_install >>

\* C2 as stated: every ended run in which 'node_modules' exists has called
\* setup(), whatever __name__ is.
C2_AsClaimed == (PathPresent /\ Ended) => Len(setupCalls) = 1

\* C2 amended: a run as a script (__name__ = '__main__') in which
\* 'node_modules' exists eventually calls setup(**setup_args), for every
\* argument list.
C2_ScriptRunReachesSetup ==
  (PathPresent /\ name = "__main__" /\ pc = "line11")
    ~> (Len(setupCalls) = 1 /\ setupCalls[1] = globals.setup_args)

C2_Witness ==
  /\ PathPresent
  /\ name = "__main__"
  /\ Len(setupCalls) = 1
  /\ Len(argv) = 2

\* C3: every setup() call receives exactly the declared metadata, whatever
\* the arguments and the filesystem, and the module's setup_args holds that
\* value from its construction on.
C3_MetadataUnchanged ==
  /\ \A i \in DOMAIN setupCalls : setupCalls[i] = DeclaredMetadata
  /\ "setup_args" \in DOMAIN globals => globals.setup_args = DeclaredMetadata

C3_Witness ==
  /\ Len(setupCalls) = 1
  /\ Len(argv) = 2
  /\ CwdEntry = "file"

\* C4 as stated: the run proceeds only when 'node_modules' is a directory;
\* any other entry (a regular file included) ends it with NodeModulesMissing
\* and without a setup() call.
C4_GuardTestsDirectory ==
  CwdEntry # "dir" =>
    /\ setupCalls = << >>
    /\ Ended => raised = "NodeModulesMissing"

\* C5: the only exception the file raises is NodeModulesMissing; it is raised
\* if and only if 'node_modules' does not exist, and the guard's outcome is
\* the same for every argument list, with or without the setuptools import.
C5_OnlyErrorIffMissing ==
  /\ raised \in { "none", "NodeModulesMissing" }
  /\ (pc = "failed") <=> (raised = "NodeModulesMissing")
  /\ Count("exists") = 1 => ((pc \in { "line18", "failed" }) <=> ~PathPresent)
  /\ Ended => ((raised = "NodeModulesMissing") <=> ~PathPresent)

C5_Witness ==
  /\ raised = "NodeModulesMissing"
  /\ setuptoolsImported
  /\ CwdEntry = "absent"

\* A run's final states.
FinalFailed == raised = "NodeModulesMissing" /\ Len(setupCalls) = 0

FinalCompleted == raised = "none" /\ Len(setupCalls) = 1

FinalLoaded ==
  /\ name # "__main__"
  /\ raised = "none"
  /\ Len(setupCalls) = 0
  /\ "setup_args" \in DOMAIN globals

\* C6 as stated: an ended run is failed (NodeModulesMissing, no setup() call)
\* or completed (one setup() call), and setup() is never called twice.
C6_AsClaimed ==
  /\ Len(setupCalls) <= 1
  /\ Ended => (FinalFailed \/ FinalCompleted)

\* C6 amended: every run terminates, in exactly one of three final states:
\* failed, completed, or loaded (__name__ is not '__main__', 'node_modules'
\* exists: no exception and no setup() call); setup() is never called more
\* than once.
C6_TerminatesInOneFinalState ==
  /\ <>Ended
  /\ [](Len(setupCalls) <= 1)
  /\ [](Ended =>
          Cardinality({ b \in { << 1, FinalFailed >>, << 2, FinalCompleted >>,
                                << 3, FinalLoaded >> } : b[2] }) = 1)

C6_Witness ==
  /\ Ended
  /\ FinalLoaded
  /\ Len(argv) = 1

\* C7: once line 11 (and line 12) has run, setuptools is imported if and only
\* if some element of the argument list is 'develop' or starts with 'bdist'.
C7_ImportIffDevelopOrBdist ==
  /\ pc = "line11" => ~setuptoolsImported
  /\ pc \notin { "line11", "line12" } => (setuptoolsImported <=> HasTriggerWord)

C7_Witness ==
  /\ setuptoolsImported
  /\ argv = << S_setup_py, S_bdist_wheel >>
  /\ pc = "line17"

\* C8: the statements run in the order inspection, import, existence check,
\* metadata, setup(); the check runs exactly once and before setup(); and a
\* run with 'develop' or 'bdist*' that fails has imported setuptools.
C8_FixedOrder ==
  /\ \A i, j \in DOMAIN log : i < j => Rank(log[i]) < Rank(log[j])
  /\ Count("exists") <= 1
  /\ (Ended \/ Count("metadata") = 1 \/ Count("setup") = 1) =>
       (Count("exists") = 1 /\ Count("inspect") = 1)
  /\ Count("setup") = Len(setupCalls)
  /\ (HasTriggerWord /\ raised = "NodeModulesMissing") => setuptoolsImported

C8_Witness ==
  /\ HasTriggerWord
  /\ raised = "NodeModulesMissing"
  /\ setuptoolsImported
  /\ log = << "inspect", "import", "exists", "raise" >>

\* C9: the check looks in the working directory, not next to setup.py: with
\* the two apart, the run fails exactly when the working directory lacks
\* 'node_modules', whatever lies next to setup.py.
C9_ResolvedAgainstCwd ==
  (cwd # scriptDir /\ Ended) =>
    /\ (fs[cwd] = "absent" /\ fs[scriptDir] = "dir") => pc = "failed"
    /\ (fs[cwd] = "dir" /\ fs[scriptDir] = "absent") => pc # "failed"
    /\ (pc = "failed") <=> (fs[cwd] \in { "absent", "dangling" })

C9_Witness ==
  /\ cwd # scriptDir
  /\ fs[cwd] = "absent"
  /\ fs[scriptDir] = "dir"
  /\ pc = "failed"

\* C10: loaded with __name__ other than '__main__', the file still runs the
\* guard and raises NodeModulesMissing when 'node_modules' is absent, never
\* calls setup(), and with 'node_modules' present ends with setup_args bound.
C10_ImportNeverCallsSetup ==
  name # "__main__" =>
    /\ setupCalls = << >>
    /\ pc \notin { "line37", "setup_error" }
    /\ Ended => Count("exists") = 1
    /\ (Ended /\ ~PathPresent) => (pc = "failed" /\ raised = "NodeModulesMissing")
    /\ (Ended /\ PathPresent) =>
         /\ pc = "done"
         /\ raised = "none"
         /\ "setup_args" \in DOMAIN globals
         /\ globals.setup_args = DeclaredMetadata

C10_Witness ==
  /\ name = "setup"
  /\ pc = "done"
  /\ PathPresent
  /\ "setup_args" \in DOMAIN globals

====
